---- MODULE Spec2Model ----
(***************************************************************************)
(* Model of PolymarketSampledCollector.get_sampled_trades_for_market       *)
(* (src/polymarket_sampled_collector.py, lines 23-125) together with the   *)
(* data API it pages through.                                              *)
(*                                                                         *)
(* Record counts are scaled down so that every path of the function can be *)
(* explored exhaustively, random sampling included.  The structure of the  *)
(* source's numbers is kept: the probe threshold and the fetch floor are   *)
(* multiples of the page size, and page size < threshold < floor.          *)
(*     source                      model                                   *)
(*     batch_size = 500            batch_size     = 2                      *)
(*     2000 (probe threshold)      ProbeThreshold = 4                      *)
(*     10000 (floor of max_fetch)  MaxFetchFloor  = 8                      *)
(*     5 (cap on older_windows)    MaxOlderWindows = 5 (unscaled)          *)
(*                                                                         *)
(* A trade is a record [id, timestamp].  The lists the function builds     *)
(* (newest_trades, older_trades, window_trades, sampled) hold references   *)
(* to the dicts of all_trades; the model keeps them as sequences of        *)
(* positions in all_trades, so that a trade fetched twice stays two        *)
(* distinguishable list elements.                                          *)
(*                                                                         *)
(* Three further specifications share the module:                          *)
(*   RateSpec     PolymarketDataCollector._rate_limit, used by one or two  *)
(*                callers (src/polymarket_data_collector.py, lines 25-38); *)
(*                times are in units of 25 ms;                             *)
(*   CollectSpec  the market loop of collect_dataset with                  *)
(*                get_all_trades_for_market (same file, lines 129-170 and  *)
(*                270-297); its page limit 100 is scaled to 2.             *)
(*   MarketsSpec  _fetch_all_markets                                       *)
(*                (src/polymarket_sampled_collector.py, lines 173-212).     *)
(* Each specification holds the variables of the others constant.          *)
(***************************************************************************)
EXTENDS Integers, Sequences, FiniteSets, TLC

\* ---- program constants (scaled, see above) ----
batch_size == 2
ProbeThreshold == 4
MaxFetchFloor == 8
MaxOlderWindows == 5

\* self.min_request_interval: 0.1 s, in units of 25 ms
min_request_interval == 4

\* 'limit' of get_all_trades_for_market: source 100
page_limit == 2

\* ---- bounds of the model ----
\* the clock of the rate limiter stops here
MaxTime == 14

\* longest list of markets, most trades of one market, largest max_trades_per_market
MaxMarkets == 2

MaxMarketTrades == 4

MaxMarketCap == 3

\* largest weeks_back, most markets one weekly window returns
MaxWeeks == 2

MaxPerWindow == 2

MaxHist == 11
MaxBudget == 9
MaxInserts == 1

\* values of the num_windows argument: negative, zero, below and above the cap
NumWindowsChoices == -1..(MaxOlderWindows + 1)

\* how many consecutive trades of the source share a timestamp
TieGroups == {1, 2}

\* seconds between two timestamp groups: one second or one hour
TsSteps == {1, 60 * 60}

VARIABLES
    pc,            \* "off", "phase1", "phase2", "done", "raised"
    all_trades,    \* list of trades fetched so far
    offset,        \* pagination offset of the next request
    max_trades,    \* argument: budget
    num_windows,   \* argument: requested number of windows
    market_size,   \* number of trades the source holds for the market now
    tie_group,     \* how many consecutive trades of the source share a timestamp
    ts_step,       \* seconds between two timestamp groups of the source
    returned,      \* the returned list, as positions in all_trades
    was_sampled,   \* the returned flag
    path,          \* which return statement produced the result
    picks,         \* per window, the positions random.sample / extend contributed
    requested,     \* offsets of the page requests issued, in order
    fetch_failed,  \* some _make_request returned None
    n_inserts,     \* trades inserted at the source during the call
    initial_size,  \* market_size when the call started
    \* -- _rate_limit --
    n_callers,          \* how many callers use the collector (0: not in use)
    now,                \* time.time()
    last_request_time,  \* self.last_request_time
    rl_pc,              \* per caller: "idle", "sleep", "stamp", "request"
    wake,               \* per caller: the time its time.sleep ends at the earliest
    prev_start,         \* start time of the request before the last one (-1: none)
    last_start,         \* start time of the last request (-1: none)
    \* -- collect_dataset --
    c_pc,               \* "off", "loop", "fetch", "finished", "aborted"
    markets,            \* the list of markets the loop runs over
    mk_i,               \* position in markets of the current market
    max_trades_per_market,  \* argument (0: None)
    c_tie,              \* how many consecutive trades of a market share a timestamp
    ga_trades,          \* all_trades of get_all_trades_for_market
    before,             \* its cursor (0: None)
    markets_with_trades,
    markets_skipped_no_resolution,
    markets_skipped_no_trades,
    f_pc,               \* _fetch_all_markets: "off", "weeks", "returned"
    weeks_back,         \* its argument
    week,               \* its loop variable
    fetched,            \* every market it received so far, in the order received
    all_markets,        \* positions in fetched of the markets it kept
    seen_condition_ids, \* its set
    outcome             \* per market handled: how the loop body ended for it,
                        \* with the trades (positions in the market's
                        \* newest-first history) get_all_trades_for_market returned

samplerVars == <<pc, all_trades, offset, max_trades, num_windows, market_size,
                 tie_group, ts_step, returned, was_sampled, path, picks, requested,
                 fetch_failed, n_inserts, initial_size>>

rateVars == <<n_callers, now, last_request_time, rl_pc, wake, prev_start, last_start>>

collectVars == <<c_pc, markets, mk_i, max_trades_per_market, c_tie, ga_trades, before,
                 markets_with_trades, markets_skipped_no_resolution,
                 markets_skipped_no_trades, outcome>>

marketVars == <<f_pc, weeks_back, week, fetched, all_markets, seen_condition_ids>>

vars == <<samplerVars, rateVars, collectVars, marketVars>>

\* ---- arithmetic and list helpers ----
Min(a, b) == IF a < b THEN a ELSE b

Max(a, b) == IF a > b THEN a ELSE b

\* Python's a // b (floor division), b # 0
FloorDiv(a, b) ==
    IF b > 0 THEN a \div b ELSE (-a) \div (-b)

\* range(a, b) as the list <<a, a+1, ..., b>> (empty when b < a)
Range(a, b) == [k \in 1..Max(0, b - a + 1) |-> a + k - 1]

\* a slice that forgets its bound
PySliceWhole(s, n) == s

\* Python's s[:n]
PySlice(s, n) ==
    IF n >= 0 THEN SubSeq(s, 1, Min(n, Len(s)))
    ELSE SubSeq(s, 1, Max(0, Len(s) + n))

\* ---- the source: the data API's /trades endpoint ----
\* The i-th trade ever made in the market (1 = oldest).
Trade(i) == [id |-> i, timestamp |-> (i \div tie_group) * ts_step]

\* The trade at position p of the source's newest-first listing.
SourceAt(p) == Trade(market_size - p + 1)

\* Response to {'limit': batch_size, 'offset': off}.
Page(off) ==
    [k \in 1..Min(batch_size, Max(0, market_size - off)) |-> SourceAt(off + k)]

\* a request whose failure reaches the caller
MakeRequestUncaught(ok, json) ==
    [raised |-> ~ok, value |-> IF ok THEN json ELSE <<>>]

\* self._make_request(url, params): response.json(), or None (here: the empty
\* list; the callers only test "not batch") when requests raised; the except
\* clause lets no RequestException out.
MakeRequest(ok, json) ==
    [raised |-> FALSE, value |-> IF ok THEN json ELSE <<>>]

\* a page test that never sees the end of the history
ShortPageNever(batch) == FALSE

\* len(batch) < batch_size
ShortPage(batch) == Len(batch) < batch_size

\* ---- phase 3: the pure part of the function ----
\* a fetch limit that ignores the budget
MaxFetchFloorOnly == MaxFetchFloor

MaxFetch == Max(max_trades * 2, MaxFetchFloor)

\* a second fetch loop without a limit
FetchMoreAlways(n) == TRUE

\* line 73: while len(all_trades) < max_fetch
FetchMore(n) == n < MaxFetch

\* an offset that steps one past the page
NextOffsetSkip(off) == off + batch_size + 1

NextOffset(off) == off + batch_size

\* a newest slice one trade short
NewestIdxShort(all) == Range(1, Min(ProbeThreshold, Len(all)) - 1)

NewestIdx(all) == Range(1, Min(ProbeThreshold, Len(all)))

\* an older slice cut from the head of the list
OlderIdxFromHead(all) == Range(1, Len(all) - ProbeThreshold)

OlderIdx(all) == Range(ProbeThreshold + 1, Len(all))

\* a window count without the cap
OlderWindowsUncapped == num_windows

OlderWindows == Min(num_windows, MaxOlderWindows)

WindowSize(nOlder) == FloorDiv(nOlder, OlderWindows)

\* a quota that is the whole remaining budget
SamplesPerWindowWhole(remaining_budget) == remaining_budget

SamplesPerWindow(remaining_budget) == FloorDiv(remaining_budget, OlderWindows)

\* every window starting at the first older trade
WindowStartZero(i, nOlder) == 0

WindowStart(i, nOlder) == i * WindowSize(nOlder)

\* every window ending where it starts
WindowEndAtStart(i, nOlder) == i * WindowSize(nOlder)

WindowEnd(i, nOlder) ==
    IF i < OlderWindows - 1 THEN (i + 1) * WindowSize(nOlder) ELSE nOlder

\* older_trades[window_start:window_end], as positions in all_trades
WindowIdx(i, all) ==
    LET older_trades == OlderIdx(all)
        nOlder == Len(older_trades)
        s == Max(0, Min(WindowStart(i, nOlder), nOlder))
        e == Max(0, Min(WindowEnd(i, nOlder), nOlder))
    IN SubSeq(older_trades, s + 1, e)

SeqToSet(s) == {s[k] : k \in 1..Len(s)}

RECURSIVE SetToSeq(_)
SetToSeq(S) ==
    IF S = {} THEN <<>>
    ELSE LET m == CHOOSE x \in S : \A y \in S : x <= y
         IN <<m>> \o SetToSeq(S \ {m})

Reverse(s) == [k \in 1..Len(s) |-> s[Len(s) + 1 - k]]

\* a sample that draws the same element k times
RandomSampleRepeat(window, k) == {[j \in 1..k |-> window[1]]}

\* The outcomes of random.sample(window, k): k distinct elements of the window.
\* Of the k! orders random.sample can return them in, the model takes the
\* window's order and its reverse.
RandomSample(window, k) ==
    LET subs == {S \in SUBSET SeqToSet(window) : Cardinality(S) = k}
    IN {SetToSeq(S) : S \in subs} \cup {Reverse(SetToSeq(S)) : S \in subs}

\* What one iteration of the window loop may extend sampled_older by.
WindowContribution(i, all, samples_per_window) ==
    LET window_trades == WindowIdx(i, all)
    IN IF Len(window_trades) <= samples_per_window
       THEN {window_trades}
       ELSE RandomSample(window_trades, samples_per_window)

\* The outcomes of the whole loop "for i in range(older_windows)", per window.
RECURSIVE WindowLoop(_, _, _)
WindowLoop(n, all, samples_per_window) ==
    IF n <= 0 THEN {<<>>}
    ELSE {Append(done, c) :
            done \in WindowLoop(n - 1, all, samples_per_window),
            c \in WindowContribution(n - 1, all, samples_per_window)}

RECURSIVE Flatten(_)
Flatten(ss) == IF ss = <<>> THEN <<>> ELSE Head(ss) \o Flatten(Tail(ss))

\* list.sort(key=lambda x: x['timestamp'], reverse=True): stable, descending
InsertDesc(all, sorted, x) ==
    LET k == Cardinality({j \in 1..Len(sorted) :
                             all[sorted[j]].timestamp >= all[x].timestamp})
    IN SubSeq(sorted, 1, k) \o <<x>> \o SubSeq(sorted, k + 1, Len(sorted))

RECURSIVE SortDesc(_, _)
SortDesc(all, s) ==
    IF s = <<>> THEN <<>>
    ELSE InsertDesc(all, SortDesc(all, SubSeq(s, 1, Len(s) - 1)), s[Len(s)])

\* ---- the result ----
records == [k \in 1..Len(returned) |-> all_trades[returned[k]]]

Return(idx, flag, p, pk) ==
    /\ pc' = "done"
    /\ returned' = idx
    /\ was_sampled' = flag
    /\ path' = p
    /\ picks' = pk

Raise ==
    /\ pc' = "raised"
    /\ UNCHANGED <<returned, was_sampled, path, picks>>

\* a small-market return that reports sampling
SmallReturnFlagged(all) ==
    Return(PySlice(Range(1, Len(all)), max_trades), TRUE, "small", <<>>)

\* return all_trades[:max_trades], False (lines 61 and 67)
SmallReturn(all) ==
    Return(PySlice(Range(1, Len(all)), max_trades), FALSE, "small", <<>>)

\* a test that sends every list on to the sampling
FitsBudgetNever(n) == FALSE

\* line 89: if len(all_trades) <= max_trades
FitsBudget(n) == n <= max_trades

\* lines 88-125, run on the list the second fetch loop ended with
Phase3(all) ==
    IF FitsBudget(Len(all))
    THEN Return(Range(1, Len(all)), FALSE, "unsampled", <<>>)
    ELSE LET newest_trades == NewestIdx(all)
             older_trades == OlderIdx(all)
             remaining_budget == max_trades - Len(newest_trades)
         IN IF remaining_budget <= 0
            THEN Return(PySlice(newest_trades, max_trades), TRUE, "budget", <<>>)
            ELSE IF Len(older_trades) <= remaining_budget
            THEN Return(PySlice(SortDesc(all, newest_trades \o older_trades), max_trades),
                        TRUE, "keepall", <<>>)
            ELSE IF OlderWindows = 0
            THEN Raise
            ELSE \E pk \in WindowLoop(OlderWindows, all,
                                      SamplesPerWindow(remaining_budget)) :
                    Return(PySlice(SortDesc(all, newest_trades \o Flatten(pk)),
                                   max_trades),
                           TRUE, "windowed", pk)

\* ---- states and actions ----
\* the rate limiter, not in use
RateOff ==
    /\ n_callers = 0
    /\ now = 0
    /\ last_request_time = 0
    /\ rl_pc = <<>>
    /\ wake = <<>>
    /\ prev_start = -1
    /\ last_start = -1

\* the market loop, not in use
CollectOff ==
    /\ c_pc = "off"
    /\ markets = <<>>
    /\ mk_i = 1
    /\ max_trades_per_market = 0
    /\ c_tie = 1
    /\ ga_trades = <<>>
    /\ before = 0
    /\ markets_with_trades = 0
    /\ markets_skipped_no_resolution = 0
    /\ markets_skipped_no_trades = 0
    /\ outcome = <<>>

\* _fetch_all_markets, not in use
MarketsOff ==
    /\ f_pc = "off"
    /\ weeks_back = 0
    /\ week = 0
    /\ fetched = <<>>
    /\ all_markets = <<>>
    /\ seen_condition_ids = {}

\* the sampler, not in use
SamplerOff ==
    /\ pc = "off"
    /\ all_trades = <<>>
    /\ offset = 0
    /\ max_trades = 0
    /\ num_windows = 1
    /\ market_size = 0
    /\ initial_size = 0
    /\ tie_group = 1
    /\ ts_step = 1
    /\ returned = <<>>
    /\ was_sampled = FALSE
    /\ path = "none"
    /\ picks = <<>>
    /\ requested = <<>>
    /\ fetch_failed = FALSE
    /\ n_inserts = 0

Init ==
    /\ RateOff
    /\ CollectOff
    /\ MarketsOff
    /\ pc = "phase1"
    /\ all_trades = <<>>
    /\ offset = 0
    /\ max_trades \in 0..MaxBudget
    /\ num_windows \in NumWindowsChoices
    /\ market_size \in 0..MaxHist
    /\ initial_size = market_size
    /\ tie_group \in TieGroups
    /\ ts_step \in TsSteps
    /\ returned = <<>>
    /\ was_sampled = FALSE
    /\ path = "none"
    /\ picks = <<>>
    /\ requested = <<>>
    /\ fetch_failed = FALSE
    /\ n_inserts = 0

\* One iteration of the loop of lines 50-64, and lines 66-67 when it breaks.
Phase1Fetch ==
    /\ pc = "phase1"
    /\ Len(all_trades) < ProbeThreshold
    /\ \E ok \in BOOLEAN :
         LET response == MakeRequest(ok, Page(offset))
             batch == response.value
             ext == all_trades \o batch
         IN /\ requested' = Append(requested, offset)
            /\ fetch_failed' = (fetch_failed \/ ~ok)
            /\ IF response.raised
               THEN /\ UNCHANGED <<all_trades, offset>>
                    /\ Raise
               ELSE IF batch = <<>>
               THEN /\ UNCHANGED <<all_trades, offset>>
                    /\ SmallReturn(all_trades)
               ELSE IF ShortPage(batch)
               THEN /\ all_trades' = ext
                    /\ UNCHANGED offset
                    /\ SmallReturn(ext)
               ELSE /\ all_trades' = ext
                    /\ offset' = NextOffset(offset)
                    /\ pc' = IF Len(ext) < ProbeThreshold THEN "phase1" ELSE "phase2"
                    /\ UNCHANGED <<returned, was_sampled, path, picks>>
    /\ UNCHANGED <<max_trades, num_windows, market_size, tie_group, ts_step,
                   n_inserts, initial_size>>
    /\ UNCHANGED <<rateVars, collectVars, marketVars>>

\* One iteration of the loop of lines 73-86; a break runs lines 88-125.
Phase2Fetch ==
    /\ pc = "phase2"
    /\ FetchMore(Len(all_trades))
    /\ \E ok \in BOOLEAN :
         LET response == MakeRequest(ok, Page(offset))
             batch == response.value
             ext == all_trades \o batch
         IN /\ requested' = Append(requested, offset)
            /\ fetch_failed' = (fetch_failed \/ ~ok)
            /\ IF response.raised
               THEN /\ UNCHANGED <<all_trades, offset>>
                    /\ Raise
               ELSE IF batch = <<>>
               THEN /\ UNCHANGED <<all_trades, offset>>
                    /\ Phase3(all_trades)
               ELSE IF ShortPage(batch)
               THEN /\ all_trades' = ext
                    /\ UNCHANGED offset
                    /\ Phase3(ext)
               ELSE /\ all_trades' = ext
                    /\ offset' = NextOffset(offset)
                    /\ UNCHANGED <<pc, returned, was_sampled, path, picks>>
    /\ UNCHANGED <<max_trades, num_windows, market_size, tie_group, ts_step,
                   n_inserts, initial_size>>
    /\ UNCHANGED <<rateVars, collectVars, marketVars>>

\* The loop of lines 73-86 ends because max_fetch trades are held.
Phase2Full ==
    /\ pc = "phase2"
    /\ ~FetchMore(Len(all_trades))
    /\ Phase3(all_trades)
    /\ UNCHANGED <<all_trades, offset, max_trades, num_windows, market_size,
                   tie_group, ts_step, requested, fetch_failed, n_inserts,
                   initial_size>>
    /\ UNCHANGED <<rateVars, collectVars, marketVars>>

\* A new trade is made in the market between two page requests.
SourceInsert ==
    /\ pc \in {"phase1", "phase2"}
    /\ requested # <<>>
    /\ n_inserts < MaxInserts
    /\ market_size' = market_size + 1
    /\ n_inserts' = n_inserts + 1
    /\ UNCHANGED <<pc, all_trades, offset, max_trades, num_windows, tie_group,
                   ts_step, returned, was_sampled, path, picks, requested,
                   fetch_failed, initial_size>>
    /\ UNCHANGED <<rateVars, collectVars, marketVars>>

Next == Phase1Fetch \/ Phase2Fetch \/ Phase2Full \/ SourceInsert

Spec == Init /\ [][Next]_vars

\* ======================= _rate_limit =======================
Callers == 1..n_callers

\* the first call happens long after the epoch: time.time() exceeds
\* last_request_time = 0 by at least the interval
StartTimes == min_request_interval..(min_request_interval + 2)

NeedsSleepNever(elapsed) == FALSE

\* line 31: if elapsed < self.min_request_interval
NeedsSleep(elapsed) == elapsed < min_request_interval

\* line 32: the argument of time.sleep
SleepFor(elapsed) == min_request_interval - elapsed

RateInit ==
    /\ SamplerOff
    /\ CollectOff
    /\ MarketsOff
    /\ n_callers \in {1, 2}
    /\ now \in StartTimes
    /\ last_request_time = 0
    /\ rl_pc = [c \in Callers |-> "idle"]
    /\ wake = [c \in Callers |-> 0]
    /\ prev_start = -1
    /\ last_start = -1

\* lines 30-32: read the clock and last_request_time, decide whether to sleep
RlEnter(c) ==
    /\ rl_pc[c] = "idle"
    /\ LET elapsed == now - last_request_time
       IN  IF NeedsSleep(elapsed)
           THEN /\ rl_pc' = [rl_pc EXCEPT ![c] = "sleep"]
                /\ wake' = [wake EXCEPT ![c] = now + SleepFor(elapsed)]
           ELSE /\ rl_pc' = [rl_pc EXCEPT ![c] = "stamp"]
                /\ UNCHANGED wake
    /\ UNCHANGED <<n_callers, now, last_request_time, prev_start, last_start>>
    /\ UNCHANGED <<samplerVars, collectVars, marketVars>>

\* line 32: time.sleep returns, not before the time asked for has passed
RlWake(c) ==
    /\ rl_pc[c] = "sleep"
    /\ now >= wake[c]
    /\ rl_pc' = [rl_pc EXCEPT ![c] = "stamp"]
    /\ UNCHANGED <<n_callers, now, last_request_time, wake, prev_start, last_start>>
    /\ UNCHANGED <<samplerVars, collectVars, marketVars>>

\* line 34 and line 38: stamp last_request_time, then requests.get starts
RlStamp(c) ==
    /\ rl_pc[c] = "stamp"
    /\ last_request_time' = now
    /\ prev_start' = last_start
    /\ last_start' = now
    /\ rl_pc' = [rl_pc EXCEPT ![c] = "request"]
    /\ UNCHANGED <<n_callers, now, wake>>
    /\ UNCHANGED <<samplerVars, collectVars, marketVars>>

\* lines 38-45: the request ends (with a response or an error); the caller
\* may call _make_request again
RequestDone(c) ==
    /\ rl_pc[c] = "request"
    /\ rl_pc' = [rl_pc EXCEPT ![c] = "idle"]
    /\ UNCHANGED <<n_callers, now, last_request_time, wake, prev_start, last_start>>
    /\ UNCHANGED <<samplerVars, collectVars, marketVars>>

\* time passes
Tick ==
    /\ n_callers >= 1
    /\ now < MaxTime
    /\ now' = now + 1
    /\ UNCHANGED <<n_callers, last_request_time, rl_pc, wake, prev_start, last_start>>
    /\ UNCHANGED <<samplerVars, collectVars, marketVars>>

Enter == \E c \in Callers : RlEnter(c)

Wake == \E c \in Callers : RlWake(c)

Stamp == \E c \in Callers : RlStamp(c)

Finish == \E c \in Callers : RequestDone(c)

RateNext == Enter \/ Wake \/ Stamp \/ Finish \/ Tick

RateSpec == RateInit /\ [][RateNext]_vars

\* ======================= collect_dataset =======================
Market == [resolved : BOOLEAN, size : 0..MaxMarketTrades]

MarketLists == UNION {[1..n -> Market] : n \in 0..MaxMarkets}

\* runs of 1, 2 or 3 trades made at the same second; with page_limit = 2 the
\* runs of 2 end where a page ends and the runs of 3 straddle a page boundary
TieSizes == {1, 2, 3}

\* trade i of a market (1 = newest) carries this timestamp; c_tie consecutive
\* trades share one
TradeTs(i) == MaxMarketTrades + 1 - ((i - 1) \div c_tie)

\* what /trades answers to {'market': ..., 'limit': page_limit, 'before': b}:
\* the newest page_limit trades older than b (b = 0: no 'before' parameter)
BeforePage(size, b) ==
    LET e == {i \in 1..size : b = 0 \/ TradeTs(i) < b}
    IN  IF e = {} THEN <<>>
        ELSE LET f == CHOOSE i \in e : \A j \in e : i <= j
             IN  Range(f, Min(size, f + page_limit - 1))

\* line 158: if max_trades and len(all_trades) >= max_trades
Capped(trades) ==
    max_trades_per_market # 0 /\ Len(trades) >= max_trades_per_market

ContinueBreaks(i) == [c_pc |-> "finished", mk_i |-> i]

\* 'continue' of the market loop: on to the next market
Continue(i) == [c_pc |-> "loop", mk_i |-> i + 1]

CollectInit ==
    /\ SamplerOff
    /\ RateOff
    /\ MarketsOff
    /\ c_pc = "loop"
    /\ markets \in MarketLists
    /\ mk_i = 1
    /\ max_trades_per_market \in 0..MaxMarketCap
    /\ c_tie \in TieSizes
    /\ ga_trades = <<>>
    /\ before = 0
    /\ markets_with_trades = 0
    /\ markets_skipped_no_resolution = 0
    /\ markets_skipped_no_trades = 0
    /\ outcome = <<>>

\* lines 275-285: the loop takes the next market; one without a valid
\* resolution is skipped, for the others get_all_trades_for_market starts
LoopStep ==
    /\ c_pc = "loop"
    /\ mk_i <= Len(markets)
    /\ IF ~markets[mk_i].resolved
       THEN /\ markets_skipped_no_resolution' = markets_skipped_no_resolution + 1
            /\ outcome' = Append(outcome, [status |-> "no_resolution", n_trades |-> 0,
                                           failed |-> FALSE, truncated |-> FALSE,
                                           trades |-> <<>>])
            /\ c_pc' = Continue(mk_i).c_pc
            /\ mk_i' = Continue(mk_i).mk_i
       ELSE /\ c_pc' = "fetch"
            /\ UNCHANGED <<markets_skipped_no_resolution, outcome, mk_i>>
    /\ UNCHANGED <<markets, max_trades_per_market, c_tie, ga_trades, before,
                   markets_with_trades, markets_skipped_no_trades>>
    /\ UNCHANGED <<samplerVars, rateVars, marketVars>>

\* lines 288-297 (and the trade loop after them): get_all_trades_for_market
\* has returned (trades, was_truncated); failed tells whether its last request
\* failed
MarketDone(trades, was_truncated, failed) ==
    /\ ga_trades' = <<>>
    /\ before' = 0
    /\ IF trades = <<>>
       THEN /\ markets_skipped_no_trades' = markets_skipped_no_trades + 1
            /\ outcome' = Append(outcome, [status |-> "no_trades", n_trades |-> 0,
                                           failed |-> failed, truncated |-> was_truncated,
                                           trades |-> trades])
            /\ c_pc' = Continue(mk_i).c_pc
            /\ mk_i' = Continue(mk_i).mk_i
            /\ UNCHANGED markets_with_trades
       ELSE /\ markets_with_trades' = markets_with_trades + 1
            /\ outcome' = Append(outcome, [status |-> "with_trades", n_trades |-> Len(trades),
                                           failed |-> failed, truncated |-> was_truncated,
                                           trades |-> trades])
            /\ c_pc' = "loop"
            /\ mk_i' = mk_i + 1
            /\ UNCHANGED markets_skipped_no_trades

\* lines 144-168: one round of the while loop of get_all_trades_for_market,
\* and, when it breaks, the rest of the loop body of collect_dataset
FetchTrades ==
    /\ c_pc = "fetch"
    /\ \E ok \in BOOLEAN :
         LET response == MakeRequest(ok, BeforePage(markets[mk_i].size, before))
             trades   == response.value
             ext      == ga_trades \o trades
         IN  IF response.raised
             THEN /\ c_pc' = "aborted"
                  /\ UNCHANGED <<mk_i, ga_trades, before, markets_with_trades,
                                 markets_skipped_no_trades, outcome>>
             ELSE IF trades = <<>>
             THEN MarketDone(ga_trades, FALSE, ~ok)
             ELSE IF Capped(ext)
             THEN MarketDone(PySlice(ext, max_trades_per_market), TRUE, FALSE)
             ELSE IF Len(trades) < page_limit
             THEN MarketDone(ext, FALSE, FALSE)
             ELSE /\ ga_trades' = ext
                  /\ before' = TradeTs(trades[Len(trades)])
                  /\ UNCHANGED <<c_pc, mk_i, markets_with_trades,
                                 markets_skipped_no_trades, outcome>>
    /\ UNCHANGED <<markets, max_trades_per_market, c_tie, markets_skipped_no_resolution>>
    /\ UNCHANGED <<samplerVars, rateVars, marketVars>>

\* the for loop has run out of markets
LoopEnd ==
    /\ c_pc = "loop"
    /\ mk_i > Len(markets)
    /\ c_pc' = "finished"
    /\ UNCHANGED <<markets, mk_i, max_trades_per_market, c_tie, ga_trades, before,
                   markets_with_trades, markets_skipped_no_resolution,
                   markets_skipped_no_trades, outcome>>
    /\ UNCHANGED <<samplerVars, rateVars, marketVars>>

CollectNext == LoopStep \/ FetchTrades \/ LoopEnd

CollectSpec == CollectInit /\ [][CollectNext]_vars

\* ======================= _fetch_all_markets =======================
\* the market dicts the Gamma API may deliver: the condition id under either
\* key ("" stands for a missing key), two markets with the same id, a market
\* with another id, a market without one
MarketKinds ==
    {[conditionId |-> "a", condition_id |-> ""],
     [conditionId |-> "", condition_id |-> "a"],
     [conditionId |-> "b", condition_id |-> ""],
     [conditionId |-> "", condition_id |-> ""]}

\* what _fetch_markets_for_window may return for one week
WindowLists == UNION {[1..n -> MarketKinds] : n \in 0..MaxPerWindow}

\* line 204: market.get('conditionId') or market.get('condition_id')
CidOf(market) ==
    IF market.conditionId # "" THEN market.conditionId ELSE market.condition_id

\* a test that takes every market for new
IsNewAlways(cid, seen) == TRUE

\* line 205: if cid and cid not in seen_condition_ids
IsNew(cid, seen) == cid # "" /\ cid \notin seen

\* lines 203-208: the loop over one window's markets; base markets were
\* received before ms
RECURSIVE DedupLoop(_, _, _, _)
DedupLoop(ms, base, seen, kept) ==
    IF ms = <<>> THEN [seen |-> seen, kept |-> kept]
    ELSE LET cid == CidOf(Head(ms))
         IN  IF IsNew(cid, seen)
             THEN DedupLoop(Tail(ms), base + 1, seen \cup {cid}, Append(kept, base + 1))
             ELSE DedupLoop(Tail(ms), base + 1, seen, kept)

MarketsInit ==
    /\ SamplerOff
    /\ RateOff
    /\ CollectOff
    /\ f_pc = "weeks"
    /\ weeks_back \in 0..MaxWeeks
    /\ week = 0
    /\ fetched = <<>>
    /\ all_markets = <<>>
    /\ seen_condition_ids = {}

\* lines 191-210: one round of the loop over the weeks
FetchWeek ==
    /\ f_pc = "weeks"
    /\ week < weeks_back
    /\ \E window_markets \in WindowLists :
         LET after == DedupLoop(window_markets, Len(fetched), seen_condition_ids,
                                all_markets)
         IN  /\ fetched' = fetched \o window_markets
             /\ seen_condition_ids' = after.seen
             /\ all_markets' = after.kept
    /\ week' = week + 1
    /\ UNCHANGED <<f_pc, weeks_back>>
    /\ UNCHANGED <<samplerVars, rateVars, collectVars>>

\* line 212: return all_markets
ReturnMarkets ==
    /\ f_pc = "weeks"
    /\ week >= weeks_back
    /\ f_pc' = "returned"
    /\ UNCHANGED <<weeks_back, week, fetched, all_markets, seen_condition_ids>>
    /\ UNCHANGED <<samplerVars, rateVars, collectVars>>

MarketsNext == FetchWeek \/ ReturnMarkets

MarketsSpec == MarketsInit /\ [][MarketsNext]_vars

\* ---- vocabulary of the properties ----
Done == pc = "done"

\* the source did not change during the call and no request failed
Quiet == n_inserts = 0 /\ ~fetch_failed

\* the market's history when the call started, newest first
History == [p \in 1..initial_size |-> Trade(initial_size - p + 1)]

ReturnedIds == {records[k].id : k \in 1..Len(records)}

\* the call got past the probe: ProbeThreshold trades were collected
Large == Len(all_trades) >= ProbeThreshold /\ path # "small"

Ts(p) == all_trades[p].timestamp

\* ---- C1 ----
\* C1: with num_windows >= 1, whatever return statement ends the call, the
\* returned list has at most max_trades records.
C1_LengthWithinBudget ==
    (Done /\ num_windows >= 1) => Len(records) <= max_trades

\* a windowed result that fills the budget exactly, from more trades than that
C1_Witness ==
    /\ Done /\ num_windows >= 1 /\ path = "windowed"
    /\ Len(records) = max_trades
    /\ Len(all_trades) > max_trades

\* ---- C2 ----
\* C2: the returned records are unique by id, also when pages overlap because
\* a trade was inserted at the source between two requests.
C2_UniqueIds ==
    Done => \A i, j \in 1..Len(records) :
                i # j => records[i].id # records[j].id

\* ---- C3 ----
\* C3: for a budget and a window count of at least 1, was_sampled is false
\* exactly when every trade the source holds for the market is in the returned
\* list.
C3_FlagIffComplete ==
    (Done /\ max_trades >= 1 /\ num_windows >= 1)
        => (was_sampled = FALSE <=> (1..market_size) \subseteq ReturnedIds)

\* ---- C4 ----
\* C4 as stated: a history of at most ProbeThreshold trades, with no failed
\* request and an unchanged source, is returned exactly, flagged not sampled.
C4_SmallHistoryExact ==
    (Done /\ Quiet /\ initial_size <= ProbeThreshold /\ max_trades >= 1)
        => (records = History /\ was_sampled = FALSE)

\* C4 amended: the same, for a budget max_trades of at least the history's size.
C4_SmallHistoryExactWithinBudget ==
    (Done /\ Quiet /\ initial_size <= ProbeThreshold /\ max_trades >= initial_size)
        => (records = History /\ was_sampled = FALSE)

\* a history of exactly ProbeThreshold trades, returned whole
C4_Witness ==
    /\ Done /\ Quiet /\ initial_size = ProbeThreshold /\ max_trades >= initial_size
    /\ records = History /\ was_sampled = FALSE

\* ---- C5 ----
\* C5 as stated: a history larger than ProbeThreshold but within the budget is
\* returned in full and flagged sampled.
C5_LargeWithinBudgetSampled ==
    (Done /\ Quiet /\ initial_size > ProbeThreshold /\ initial_size <= max_trades)
        => ((1..market_size) \subseteq ReturnedIds /\ was_sampled = TRUE)

\* C5 amended: such a history is returned in full and flagged not sampled.
C5_LargeWithinBudgetUnsampled ==
    (Done /\ Quiet /\ initial_size > ProbeThreshold /\ initial_size <= max_trades)
        => ((1..market_size) \subseteq ReturnedIds /\ was_sampled = FALSE)

\* a history beyond the fetch floor, within the budget, returned in full
C5_Witness ==
    /\ Done /\ Quiet /\ initial_size > MaxFetchFloor /\ initial_size <= max_trades
    /\ (1..market_size) \subseteq ReturnedIds /\ was_sampled = FALSE

\* ---- C6 ----
\* C6: once ProbeThreshold trades were collected and the budget is at least
\* ProbeThreshold, each of the first ProbeThreshold fetched trades is in the
\* returned list.
C6_NewestKept ==
    (Done /\ Large /\ max_trades >= ProbeThreshold)
        => \A p \in 1..ProbeThreshold : \E k \in 1..Len(returned) : returned[k] = p

\* a windowed result with older samples that share the boundary timestamp
C6_Witness ==
    /\ Done /\ Large /\ max_trades >= ProbeThreshold /\ path = "windowed"
    /\ Len(returned) = max_trades
    /\ \E k \in 1..Len(returned) :
          returned[k] > ProbeThreshold /\ Ts(returned[k]) = Ts(ProbeThreshold)
    /\ \A p \in 1..ProbeThreshold : \E k \in 1..Len(returned) : returned[k] = p

\* ---- C7 ----
\* C7: a history below ProbeThreshold with more trades than the budget
\* (at least 1) is cut to max_trades records and flagged sampled.
C7_SmallTruncationFlagged ==
    (Done /\ Quiet /\ initial_size < ProbeThreshold /\ initial_size > max_trades
          /\ max_trades >= 1)
        => (Len(records) = max_trades /\ was_sampled = TRUE)

\* ---- C8 ----
\* The windows are consecutive slices of the trades fetched after the first
\* ProbeThreshold: window w of n holds the positions C8_First(w)..C8_Last(w).
C8_Size == (Len(all_trades) - ProbeThreshold) \div Len(picks)

C8_First(w) == ProbeThreshold + (w - 1) * C8_Size + 1

C8_Last(w) == IF w < Len(picks) THEN ProbeThreshold + w * C8_Size ELSE Len(all_trades)

\* C8 as stated: a window's time interval is half-open, from the timestamp of
\* its oldest trade up to, and excluding, the timestamp of the trade just
\* before the window; every record the window contributes lies inside it
\* (checked where the source did not change and no request failed).
C8_HalfOpenInterval ==
    (Done /\ Quiet /\ path = "windowed") =>
        \A w \in 1..Len(picks) : \A k \in 1..Len(picks[w]) :
            /\ Ts(C8_Last(w)) <= Ts(picks[w][k])
            /\ Ts(picks[w][k]) < Ts(C8_First(w) - 1)

\* C8 amended: when the source does not change during the call, every record
\* a window contributes has a timestamp in the closed interval between the
\* window's oldest and newest trade.
C8_ClosedInterval ==
    (Done /\ n_inserts = 0 /\ path = "windowed") =>
        \A w \in 1..Len(picks) : \A k \in 1..Len(picks[w]) :
            /\ Ts(C8_Last(w)) <= Ts(picks[w][k])
            /\ Ts(picks[w][k]) <= Ts(C8_First(w))

\* a later window contributes a record, and trades of two windows differ in time
C8_Witness ==
    /\ Done /\ n_inserts = 0 /\ path = "windowed" /\ Len(picks) >= 2
    /\ picks[2] # <<>>
    /\ Ts(C8_Last(2)) < Ts(C8_First(1))
    /\ \A w \in 1..Len(picks) : \A k \in 1..Len(picks[w]) :
            Ts(C8_Last(w)) <= Ts(picks[w][k]) /\ Ts(picks[w][k]) <= Ts(C8_First(w))

\* ---- C9 ----
\* C9 as stated: every record taken from the older trades is strictly older
\* than the last of the first ProbeThreshold trades (checked where the source
\* did not change and no request failed).
C9_OlderStrictlyBefore ==
    (Done /\ Quiet /\ path = "windowed") =>
        \A w \in 1..Len(picks) : \A k \in 1..Len(picks[w]) :
            Ts(picks[w][k]) < Ts(ProbeThreshold)

\* C9 amended: when the source does not change during the call, every such
\* record is at most as recent as that trade.
C9_OlderNotAfter ==
    (Done /\ n_inserts = 0 /\ path = "windowed") =>
        \A w \in 1..Len(picks) : \A k \in 1..Len(picks[w]) :
            Ts(picks[w][k]) <= Ts(ProbeThreshold)

\* an older record with the boundary's timestamp is in the result
C9_Witness ==
    /\ Done /\ n_inserts = 0 /\ path = "windowed"
    /\ Ts(1) > Ts(ProbeThreshold)
    /\ \E w \in 1..Len(picks) : \E k \in 1..Len(picks[w]) :
          Ts(picks[w][k]) = Ts(ProbeThreshold)

\* ---- C10 ----
\* C10: when the market holds more trades than the budget, the budget exceeds
\* ProbeThreshold, and the newest and the oldest of the first ProbeThreshold
\* trades are less than an hour apart, only those probed trades are returned,
\* flagged sampled.
C10_ShortSpanOnlyProbed ==
    (Done /\ Quiet /\ Large /\ num_windows >= 1
          /\ initial_size > max_trades /\ max_trades > ProbeThreshold
          /\ Ts(1) - Ts(ProbeThreshold) < 60 * 60)
        => (/\ \A k \in 1..Len(returned) : returned[k] <= ProbeThreshold
            /\ was_sampled = TRUE)

\* ---- C11 ----
\* C11: with num_windows >= 1, the step in which a page request fails adds
\* nothing to all_trades and ends the call with a returned list made of
\* trades collected before the failure; the call does not raise.
C11_FailureNotPropagated ==
    [][(~fetch_failed /\ fetch_failed' /\ num_windows >= 1)
         => (/\ pc' = "done"
             /\ all_trades' = all_trades
             /\ \A k \in 1..Len(returned') : returned'[k] \in 1..Len(all_trades))]_vars

\* a request of the second fetch loop failed and a windowed result was returned
C11_Witness ==
    /\ Done /\ fetch_failed /\ num_windows >= 1
    /\ path = "windowed" /\ returned # <<>>

\* ---- C12 ----
\* C12: when the call has issued a request and holds no trade, it has returned
\* the empty list with was_sampled = FALSE, and has not raised.
C12_EmptySource ==
    (requested # <<>> /\ all_trades = <<>>)
        => (Done /\ records = <<>> /\ was_sampled = FALSE)

\* a market without trades, answered without failure
C12_Witness ==
    /\ Done /\ initial_size = 0 /\ ~fetch_failed
    /\ requested = <<0>> /\ records = <<>> /\ was_sampled = FALSE

\* ---- C13 ----
\* C13: when the probe collected ProbeThreshold trades and the budget is at
\* most ProbeThreshold, no request follows the probe's requests.
C13_NoRequestAfterProbe ==
    (Done /\ Quiet /\ Large /\ num_windows >= 1
          /\ max_trades >= 1 /\ max_trades <= ProbeThreshold)
        => Len(requested) <= ProbeThreshold \div batch_size

C15_Held ==
    IF initial_size < ProbeThreshold THEN initial_size
    ELSE LET cap == IF 2 * max_trades > MaxFetchFloor
                    THEN 2 * max_trades ELSE MaxFetchFloor
         IN IF initial_size < cap THEN initial_size ELSE cap

C15_Kept ==
    LET m == IF initial_size < ProbeThreshold THEN initial_size ELSE ProbeThreshold
    IN IF max_trades < m THEN max_trades ELSE m

\* C15: for an unchanged source and no failure, the flag and the newest-probed
\* trades of the result are functions of the history and the arguments alone;
\* two runs agree on them whatever random.sample picks.
C15_FlagAndNewestDetermined ==
    (Done /\ Quiet) =>
        /\ was_sampled = (initial_size >= ProbeThreshold /\ C15_Held > max_trades)
        /\ {returned[k] : k \in 1..Len(returned)} \cap (1..ProbeThreshold) = 1..C15_Kept
        /\ \A p \in 1..C15_Kept : all_trades[p] = History[p]

\* a windowed result in which random.sample left some older trade out
C15_Witness ==
    /\ Done /\ Quiet /\ path = "windowed"
    /\ \E w \in 1..Len(picks) : picks[w] # <<>>
    /\ \E p \in (ProbeThreshold + 1)..Len(all_trades) :
          \A k \in 1..Len(returned) : returned[k] # p
    /\ was_sampled = TRUE

\* ---- C16 ----
\* C16: with one caller, two consecutive requests made through _make_request
\* start at least min_request_interval apart, whatever time passes between the
\* calls.
C16_SingleCallerSpacing ==
    (n_callers = 1 /\ prev_start >= 0) =>
        last_start - prev_start >= min_request_interval

\* a second request was made right at the end of the sleep the first one
\* caused
C16_Witness ==
    /\ n_callers = 1
    /\ prev_start >= 0
    /\ wake[1] = last_start
    /\ last_start - prev_start = min_request_interval

\* ---- C17 ----
\* C17: with two callers on one collector, no interleaving of their
\* _rate_limit calls lets two consecutive requests start less than
\* min_request_interval apart.
C17_ConcurrentSpacing ==
    (n_callers = 2 /\ prev_start >= 0) =>
        last_start - prev_start >= min_request_interval

\* ---- C18 ----
C18_Outcomes == 1..Len(outcome)

\* the loop is never aborted and has passed every market it handled; when it
\* ends it has handled every market of the list
C18_LoopGoesOn ==
    /\ c_pc # "aborted"
    /\ c_pc \in {"loop", "fetch", "finished"} => Len(outcome) = mk_i - 1
    /\ c_pc = "finished" => Len(outcome) = Len(markets)
    /\ markets_with_trades + markets_skipped_no_resolution + markets_skipped_no_trades
           = Len(outcome)

C20_Windows == IF num_windows < 5 THEN num_windows ELSE 5

C19_Quota == (max_trades - ProbeThreshold) \div C20_Windows

\* C19: with num_windows >= 1, each window contributes at most
\* floor((max_trades - ProbeThreshold) / windows) records, and all windows
\* together at most max_trades - ProbeThreshold.
C19_WindowQuota ==
    (Done /\ path = "windowed" /\ num_windows >= 1) =>
        /\ \A w \in 1..Len(picks) : Len(picks[w]) <= C19_Quota
        /\ Len(Flatten(picks)) <= max_trades - ProbeThreshold

\* windows that fill their quota while part of the budget stays unspent
C19_Witness ==
    /\ Done /\ path = "windowed" /\ num_windows >= 2
    /\ C19_Quota >= 1
    /\ \A w \in 1..Len(picks) : Len(picks[w]) = C19_Quota
    /\ Len(Flatten(picks)) < max_trades - ProbeThreshold

\* C20: with num_windows >= 1, the older trades are divided into exactly
\* min(num_windows, 5) windows.
C20_WindowCount ==
    (Done /\ path = "windowed" /\ num_windows >= 1) => Len(picks) = C20_Windows

\* six windows requested, five used
C20_Witness ==
    /\ Done /\ path = "windowed" /\ num_windows = 6 /\ Len(picks) = 5

\* ---- C21 ----
\* C21: on every return path the returned records are in ascending order of
\* timestamp.
C21_AscendingTimestamps ==
    (Done /\ Quiet /\ max_trades >= 2 /\ num_windows >= 1) =>
        \A k \in 1..(Len(returned) - 1) : Ts(returned[k]) <= Ts(returned[k + 1])

\* ---- C22 ----
\* the fetches of get_all_trades_for_market that ran to the end of the market:
\* no request failed and the cap did not cut the list
C22_WholeFetches ==
    {j \in 1..Len(outcome) : /\ outcome[j].status \in {"no_trades", "with_trades"}
                             /\ ~outcome[j].failed
                             /\ ~outcome[j].truncated}

\* C22: with the previous page's oldest timestamp as the cursor of each
\* further request, a whole fetch holds every trade of the market exactly once,
\* also when several trades share the timestamp at a page boundary.
C22_EachTradeOnce ==
    \A j \in C22_WholeFetches : outcome[j].trades = Range(1, markets[j].size)

\* ---- C23 ----
C23_MaxFetch ==
    IF 2 * max_trades > MaxFetchFloor THEN 2 * max_trades ELSE MaxFetchFloor

C23_ProbeRequests == ProbeThreshold \div batch_size

\* the probe makes at most C23_ProbeRequests requests, no request is made once
\* C23_MaxFetch trades are held, and fewer than C23_MaxFetch + batch_size
\* trades are ever held
C23_Held ==
    /\ pc = "phase1" => Len(requested) < C23_ProbeRequests
    /\ path = "small" => Len(requested) <= C23_ProbeRequests
    /\ (Len(requested) - 1) * batch_size < C23_MaxFetch
    /\ Len(all_trades) < C23_MaxFetch + batch_size

\* every step of the call either ends it or is a request that adds a full
\* page to the trades held (the remaining steps are the source's)
C23_Progress ==
    \/ pc' \in {"done", "raised"}
    \/ /\ Len(requested') = Len(requested) + 1
       /\ Len(all_trades') = Len(all_trades) + batch_size
    \/ market_size' # market_size

\* C23: the call terminates for every source: the probe makes at most
\* ProbeThreshold / batch_size requests, fetching stops once
\* max(2 * max_trades, MaxFetchFloor) trades are held, fewer than that plus
\* batch_size trades are ever held, and every request that does not end the
\* call adds a full page.
C23_TerminatesBounded == []C23_Held /\ [][C23_Progress]_vars

\* the call ended because the fetch limit was reached, on a source that had
\* more trades to give
C23_Witness ==
    /\ Done
    /\ Len(all_trades) >= C23_MaxFetch
    /\ market_size > Len(all_trades)
    /\ Len(requested) * batch_size = Len(all_trades)

\* ---- C24 ----
\* the calls of get_all_trades_for_market that have returned
C24_Calls ==
    {j \in 1..Len(outcome) : outcome[j].status \in {"no_trades", "with_trades"}}

\* C24: with a positive max_trades, get_all_trades_for_market returns at most
\* max_trades trades, and was_truncated is true exactly when the market has
\* trades that were not returned (here for fetches without a failed request
\* and markets without equal timestamps).
C24_TruncatedIffCut ==
    (max_trades_per_market >= 1 /\ c_tie = 1) =>
        \A j \in C24_Calls :
            ~outcome[j].failed =>
                /\ Len(outcome[j].trades) <= max_trades_per_market
                /\ outcome[j].truncated <=> Len(outcome[j].trades) < markets[j].size

\* ---- C25 ----
\* the condition id of the market received at position p
C25_Cid(p) ==
    IF fetched[p].conditionId # "" THEN fetched[p].conditionId
    ELSE fetched[p].condition_id

\* C25: the list of _fetch_all_markets holds no two markets with the same
\* condition id and none without one; each market in it is the first one
\* received with its id, every id received is in it, and the markets keep the
\* order in which they were received.
C25_UniqueInOrder ==
    /\ \A i, j \in 1..Len(all_markets) :
         i < j => /\ C25_Cid(all_markets[i]) # C25_Cid(all_markets[j])
                  /\ all_markets[i] < all_markets[j]
    /\ \A k \in 1..Len(all_markets) :
         /\ C25_Cid(all_markets[k]) # ""
         /\ \A p \in 1..(all_markets[k] - 1) : C25_Cid(p) # C25_Cid(all_markets[k])
    /\ \A p \in 1..Len(fetched) :
         C25_Cid(p) # "" => \E k \in 1..Len(all_markets) :
                                C25_Cid(all_markets[k]) = C25_Cid(p)

\* two markets were kept; a later week's market with the id of a kept one and
\* a market without an id were dropped
C25_Witness ==
    /\ f_pc = "returned"
    /\ week = 2
    /\ Len(all_markets) = 2
    /\ \E p, q \in 1..Len(fetched) :
         /\ p < q
         /\ C25_Cid(p) = C25_Cid(q)
         /\ C25_Cid(p) # ""
         /\ fetched[p] # fetched[q]
    /\ \E p \in 1..Len(fetched) : C25_Cid(p) = ""

\* ---- C26 ----
\* the windows, the quota and the window sizes, from the arguments and the
\* number of trades held
C26_W == IF num_windows < 5 THEN num_windows ELSE 5

C26_Quota == (max_trades - ProbeThreshold) \div C26_W

C26_Older == Len(all_trades) - ProbeThreshold

C26_Holds(w) ==
    IF w < C26_W THEN C26_Older \div C26_W
    ELSE C26_Older - (C26_W - 1) * (C26_Older \div C26_W)

\* C26: in the windowed branch with num_windows >= 1 every window holds at
\* least its quota, each window contributes exactly its quota, and the output
\* has ProbeThreshold + windows * quota records, at least
\* max_trades - (windows - 1).
C26_ExactQuota ==
    (Done /\ path = "windowed" /\ num_windows >= 1) =>
        /\ Len(picks) = C26_W
        /\ \A w \in 1..C26_W : /\ C26_Holds(w) >= C26_Quota
                               /\ Len(picks[w]) = C26_Quota
        /\ Len(returned) = ProbeThreshold + C26_W * C26_Quota
        /\ Len(returned) >= max_trades - (C26_W - 1)

\* two windows of quota 2 and a budget that is not spent in full
C26_Witness ==
    /\ Done /\ path = "windowed" /\ num_windows = 2
    /\ C26_Quota = 2
    /\ Len(picks[1]) = 2 /\ Len(picks[2]) = 2
    /\ Len(returned) = max_trades - 1

\* ---- C27 ----
\* C27: for every budget max_trades >= 0 and every integer num_windows, zero
\* and negative values included, the call returns and does not raise.
C27_NeverRaises ==
    (max_trades >= 0 /\ Quiet) => pc # "raised"

\* ---- C28 ----
\* control reached the test of line 101: the call has ended by sampling, by
\* keeping all older trades or by the division of line 107
C28_ReachedCheck ==
    \/ Done /\ path \in {"windowed", "keepall"}
    \/ pc = "raised"

\* C28: whenever the older trades are tested against a positive remaining
\* budget they outnumber it, and the branch that keeps all older trades is
\* never taken.
C28_KeepAllUnreachable ==
    /\ C28_ReachedCheck =>
          /\ max_trades - ProbeThreshold > 0
          /\ Len(all_trades) - ProbeThreshold > max_trades - ProbeThreshold
    /\ path # "keepall"

\* the test was reached with one older trade more than the remaining budget
C28_Witness ==
    /\ Done /\ path = "windowed"
    /\ Len(all_trades) - ProbeThreshold = max_trades - ProbeThreshold + 1

\* ---- C29 ----
\* C29: within one call the k-th page request uses offset (k - 1) * batch_size:
\* the offsets are 0, batch_size, 2 * batch_size, ..., the second fetch loop
\* goes on where the probe stopped, and no offset is used twice or left out.
C29_OffsetsInSteps ==
    \A k \in 1..Len(requested) : requested[k] = (k - 1) * batch_size

\* a call that made requests in both fetch loops, the last of them the first
\* after the probe's
C29_Witness ==
    /\ Done
    /\ Len(requested) = ProbeThreshold \div batch_size + 2
    /\ requested[ProbeThreshold \div batch_size + 1] = ProbeThreshold

\* ---- C30 ----
\* the records returned and the records received, as sets
C30_ReturnedRecords == {all_trades[returned[k]] : k \in 1..Len(returned)}

C30_ReceivedRecords == {all_trades[p] : p \in 1..Len(all_trades)}

\* C30: on every return path each returned record is a record received in a
\* page response, each received record (by its place in the list of records
\* received) is returned at most once, and two equal records are returned only
\* if two equal records were received.
C30_NothingMadeUpOrRepeated ==
    Done =>
        /\ \A k \in 1..Len(returned) : returned[k] \in 1..Len(all_trades)
        /\ Cardinality({returned[k] : k \in 1..Len(returned)}) = Len(returned)
        /\ Cardinality(C30_ReturnedRecords) < Len(returned)
              => Cardinality(C30_ReceivedRecords) < Len(all_trades)

\* a sampled result that holds a trade twice because the source delivered it
\* twice
C30_Witness ==
    /\ Done /\ path = "windowed" /\ num_windows >= 2
    /\ Cardinality({returned[k] : k \in 1..Len(returned)}) = Len(returned)
    /\ Cardinality(C30_ReturnedRecords) < Len(returned)
====
